---------------------------- MODULE Spec2Model ----------------------------
(***************************************************************************)
(* stock_watch_agent: the note condition evaluator (src/evaluator.py), the *)
(* note store (src/storage.py) and the batch check run (check_mode in      *)
(* src/main.py, show_check_alerts in src/app.py).                          *)
(*                                                                         *)
(* Money is an integer number of cents, percentages are whole percents,    *)
(* and a timestamp is an integer number of clock units, DayLen of them to  *)
(* a day.  A Python value is a tagged record, so that None, a number, a    *)
(* string and a dict stay distinct values with Python's truthiness.        *)
(* An amount stands for the double nearest to it.  Comparing two amounts   *)
(* is comparing their cents (rounding is monotone and keeps cents apart);  *)
(* the percentage (x / y) * 100 is computed with the two roundings of      *)
(* binary64, see FloatPctSign.                                             *)
(***************************************************************************)
EXTENDS Integers, Sequences, FiniteSets, TLC

\* ------------------------------------------------------------------ bounds
NumNotes == 2        \* note identifiers 1..NumNotes that add may create
MaxNow   == 1        \* the clock of the batch model runs 0..MaxNow days
MaxPreds == 2        \* most predicates configured together on an evaluated note
DayLen   == 2        \* clock units per day (timedelta.days floors to days)

\* ---------------------------------------------------------- Python values
NoneV    == [t |-> "none"]
Num(v)   == [t |-> "num", v |-> v]
Str(s)   == [t |-> "str", s |-> s]
\* a dict read through .get("min") / .get("max"): an absent key reads as None
Dict(lo, hi) == [t |-> "dict", min |-> lo, max |-> hi]

\* bool(x) with the number 0 taken for true
Truthy_ZeroSet(x) ==
    CASE x.t = "none" -> FALSE
      [] x.t = "num"  -> TRUE
      [] x.t = "str"  -> x.s # ""
      [] x.t = "dict" -> TRUE

\* bool(x) of Python: None, 0 and "" are falsy; a dict with a key is truthy
Truthy(x) ==
    CASE x.t = "none" -> FALSE
      [] x.t = "num"  -> x.v # 0
      [] x.t = "str"  -> x.s # ""
      [] x.t = "dict" -> TRUE

IsNum(x) == x.t = "num"

\* dict.get(key): None when the key is absent
Get(d, k) == IF k \in DOMAIN d THEN d[k] ELSE NoneV

\* the empty dict {}
EmptyDict == [k \in {} |-> NoneV]

\* ------------------------------------------------------------- formatting
Abs(x) == IF x < 0 THEN -x ELSE x

\* f"{x:.2f}" of an amount of c cents: sign, whole part, two decimals
Fmt2(c) == [neg |-> c < 0, whole |-> Abs(c) \div 100, frac |-> Abs(c) % 100]

\* f"{x:.2f}" of the percentage 100 * num / den (den > 0), rounded to 1/100
FmtPct(num, den) ==
    LET h == (Abs(num) * 10000 * 2 + den) \div (2 * den)
    IN  [neg |-> num < 0 /\ h # 0, whole |-> h \div 100, frac |-> h % 100]

\* ------------------------------------------------------ double arithmetic
Sgn(x) == IF x > 0 THEN 1 ELSE IF x < 0 THEN -1 ELSE 0

\* floor(log2(a / b)) for positive integers a, b: the binary exponent of a / b
RECURSIVE ExpOf(_, _)
ExpOf(a, b) ==
    IF a >= 2 * b THEN 1 + ExpOf(a, 2 * b)
    ELSE IF a < b THEN ExpOf(2 * a, b) - 1
    ELSE 0

\* 2^k % m, by squaring
RECURSIVE Pow2Mod(_, _)
Pow2Mod(k, m) ==
    IF k = 0 THEN 1 % m
    ELSE LET h == Pow2Mod(k \div 2, m)
         IN  (h * h * (IF k % 2 = 1 THEN 2 ELSE 1)) % m

\* (x * 2^k) % m
DoubleMod(x, k, m) == ((x % m) * Pow2Mod(k, m)) % m

\* the sign of fl(fl(th / 100) * 100) - th for an integer th >= 1, fl being
\* round-to-nearest-even to 53 bits.  q = fl(th / 100) = m * 2^-k with
\* th * 2^k = 100 * M + r and m = M or M + 1, so 100 * q = th + rho / 2^k
\* with rho = -r or 100 - r; one ulp of th is 2^s times 2^-k, and the
\* product rounds back to th unless rho is more than half an ulp away
\* (a quarter below a power of two).
Float100(th) ==
    LET E    == ExpOf(th, 1)
        Eq   == ExpOf(th, 100)
        s    == E - Eq
        k    == 52 - Eq
        r    == DoubleMod(th, k, 100)
        odd  == DoubleMod(th, k, 200) >= 100
        rho  == IF r = 0 THEN 0
                ELSE IF 2 * r < 100 \/ (2 * r = 100 /\ ~odd) THEN -r
                ELSE 100 - r
        half == 2 ^ (s - 1)
        lim  == IF th = 2 ^ E THEN half \div 2 ELSE half
    IN  IF rho > half THEN 1 ELSE IF -rho > lim THEN -1 ELSE 0

\* an amount of c cents that a double holds exactly (a multiple of 0.25)
IsDouble(c) == c % 25 = 0

\* the sign of ((x - y) / y) * 100 - T as line 62 and line 69 compute the
\* percentage from the amounts x and y (y # 0) and an integer T.  Off the
\* boundary the roundings (relative 2^-52) cannot change the side; on it,
\* x - y and y being exact, the quotient is fl(|T| / 100) and the product is
\* Float100 away from |T|.  For amounts a double does not hold exactly the
\* further rounding of the inputs is not tracked.
FloatPctSign(x, y, T) ==
    LET exact == Sgn(100 * (x - y) - T * y) * Sgn(y) IN
    IF exact # 0 \/ T = 0 THEN exact
    ELSE IF IsDouble(x) /\ IsDouble(y) THEN Sgn(T) * Float100(Abs(T))
    ELSE 0

\* ------------------------------------------------------------- evaluator
PredOrder == << "price_above", "price_below", "price_between", "percent_drop",
                "percent_change", "reminder_days", "time_period_days",
                "trailing_stop" >>

\* one predicate's outcome: it raised, or it appended these reasons (0 or 1)
Quiet      == [raised |-> FALSE, reasons |-> << >>]
Raised     == [raised |-> TRUE,  reasons |-> << >>]
Hit(r)     == [raised |-> FALSE, reasons |-> << r >>]

\* a comparison of a float with a value of the conditions: TypeError unless
\* the value is a number
CmpRaises(x) == ~IsNum(x)

\* (datetime.now() - note.created_at).days
DaysElapsed(now, created_at) ==
    IF now >= created_at THEN (now - created_at) \div DayLen
    ELSE -(((created_at - now) + DayLen - 1) \div DayLen)

\* lines 43-44 with > for >=
CheckPriceAbove_Strict(conditions, current_price) ==
    LET th == Get(conditions, "price_above") IN
    IF ~Truthy(th) THEN Quiet
    ELSE IF CmpRaises(th) THEN Raised
    ELSE IF current_price > th.v
         THEN Hit([pred |-> "price_above", amount |-> Fmt2(th.v)])
         ELSE Quiet

\* lines 43-44
CheckPriceAbove(conditions, current_price) ==
    LET th == Get(conditions, "price_above") IN
    IF ~Truthy(th) THEN Quiet
    ELSE IF CmpRaises(th) THEN Raised
    ELSE IF current_price >= th.v
         THEN Hit([pred |-> "price_above", amount |-> Fmt2(th.v)])
         ELSE Quiet

\* lines 47-48 with < for <=
CheckPriceBelow_Strict(conditions, current_price) ==
    LET th == Get(conditions, "price_below") IN
    IF ~Truthy(th) THEN Quiet
    ELSE IF CmpRaises(th) THEN Raised
    ELSE IF current_price < th.v
         THEN Hit([pred |-> "price_below", amount |-> Fmt2(th.v)])
         ELSE Quiet

\* lines 47-48
CheckPriceBelow(conditions, current_price) ==
    LET th == Get(conditions, "price_below") IN
    IF ~Truthy(th) THEN Quiet
    ELSE IF CmpRaises(th) THEN Raised
    ELSE IF current_price <= th.v
         THEN Hit([pred |-> "price_below", amount |-> Fmt2(th.v)])
         ELSE Quiet

\* lines 51-57
CheckPriceBetween(conditions, current_price) ==
    LET price_range == Get(conditions, "price_between") IN
    IF ~Truthy(price_range) THEN Quiet
    ELSE IF price_range.t # "dict" THEN Quiet
    ELSE LET min_price == price_range.min
             max_price == price_range.max
         IN  IF ~(Truthy(min_price) /\ Truthy(max_price)) THEN Quiet
             ELSE IF CmpRaises(min_price) THEN Raised
             ELSE IF ~(min_price.v <= current_price) THEN Quiet
             ELSE IF CmpRaises(max_price) THEN Raised
             ELSE IF current_price <= max_price.v
                  THEN Hit([pred |-> "price_between",
                            amount |-> Fmt2(min_price.v),
                            upto |-> Fmt2(max_price.v)])
                  ELSE Quiet

\* lines 60-64 with < for <=
CheckPercentDrop_Strict(conditions, buy_price, current_price) ==
    LET th == Get(conditions, "percent_drop") IN
    IF ~(Truthy(th) /\ Truthy(buy_price)) THEN Quiet
    ELSE IF CmpRaises(th) \/ CmpRaises(buy_price) THEN Raised
    ELSE IF FloatPctSign(current_price, buy_price.v, -th.v) < 0
         THEN Hit([pred |-> "percent_drop",
                   pct |-> FmtPct(Abs(current_price - buy_price.v), Abs(buy_price.v)),
                   amount |-> Fmt2(buy_price.v)])
         ELSE Quiet

\* lines 60-64: percent_change = (current - buy) / buy * 100 <= -threshold
CheckPercentDrop(conditions, buy_price, current_price) ==
    LET th == Get(conditions, "percent_drop") IN
    IF ~(Truthy(th) /\ Truthy(buy_price)) THEN Quiet
    ELSE IF CmpRaises(th) \/ CmpRaises(buy_price) THEN Raised
    ELSE LET den == buy_price.v
             \* percent_change <= -drop_threshold
             le  == FloatPctSign(current_price, den, -th.v) <= 0
         IN  IF le THEN Hit([pred |-> "percent_drop",
                             pct |-> FmtPct(Abs(current_price - den), Abs(den)),
                             amount |-> Fmt2(buy_price.v)])
             ELSE Quiet

\* lines 67-72 without the abs() around change_threshold
CheckPercentChange_Signed(conditions, price_info) ==
    LET th == Get(conditions, "percent_change")
        pc == price_info.previous_close
    IN
    IF ~(Truthy(th) /\ Truthy(pc)) THEN Quiet
    ELSE IF CmpRaises(th) THEN Raised
    ELSE LET diff == price_info.current_price - pc.v
             ge   == IF Sgn(diff) * Sgn(pc.v) >= 0
                     THEN FloatPctSign(price_info.current_price, pc.v, th.v) >= 0
                     ELSE FloatPctSign(price_info.current_price, pc.v, -th.v) <= 0
             up   == (diff > 0 /\ pc.v > 0) \/ (diff < 0 /\ pc.v < 0)
         IN  IF ge THEN Hit([pred |-> "percent_change",
                             pct |-> FmtPct(Abs(diff), Abs(pc.v)),
                             direction |-> IF up THEN "up" ELSE "down"])
             ELSE Quiet

\* lines 67-72 with the direction read off the sign of change_threshold
CheckPercentChange_ThresholdDirection(conditions, price_info) ==
    LET th == Get(conditions, "percent_change")
        pc == price_info.previous_close
    IN
    IF ~(Truthy(th) /\ Truthy(pc)) THEN Quiet
    ELSE IF CmpRaises(th) THEN Raised
    ELSE LET diff == price_info.current_price - pc.v
             ge   == IF Sgn(diff) * Sgn(pc.v) >= 0
                     THEN FloatPctSign(price_info.current_price, pc.v, Abs(th.v)) >= 0
                     ELSE FloatPctSign(price_info.current_price, pc.v, -Abs(th.v)) <= 0
         IN  IF ge THEN Hit([pred |-> "percent_change",
                             pct |-> FmtPct(Abs(diff), Abs(pc.v)),
                             direction |-> IF th.v > 0 THEN "up" ELSE "down"])
             ELSE Quiet

\* lines 67-72
CheckPercentChange(conditions, price_info) ==
    LET th == Get(conditions, "percent_change")
        pc == price_info.previous_close
    IN
    IF ~(Truthy(th) /\ Truthy(pc)) THEN Quiet
    ELSE IF CmpRaises(th) THEN Raised
    ELSE LET diff == price_info.current_price - pc.v
             \* abs(percent_change) >= abs(change_threshold)
             ge   == IF Sgn(diff) * Sgn(pc.v) >= 0
                     THEN FloatPctSign(price_info.current_price, pc.v, Abs(th.v)) >= 0
                     ELSE FloatPctSign(price_info.current_price, pc.v, -Abs(th.v)) <= 0
             \* percent_change > 0
             up   == (diff > 0 /\ pc.v > 0) \/ (diff < 0 /\ pc.v < 0)
         IN  IF ge THEN Hit([pred |-> "percent_change",
                             pct |-> FmtPct(Abs(diff), Abs(pc.v)),
                             direction |-> IF up THEN "up" ELSE "down"])
             ELSE Quiet

\* lines 75-78 with a started day counted as a day
CheckReminderDays_Ceil(conditions, created_at, now) ==
    LET th == Get(conditions, "reminder_days") IN
    IF ~Truthy(th) THEN Quiet
    ELSE IF CmpRaises(th) THEN Raised
    ELSE IF DaysElapsed(now + DayLen - 1, created_at) >= th.v
         THEN Hit([pred |-> "reminder_days", days |-> th.v])
         ELSE Quiet

\* lines 75-78
CheckReminderDays(conditions, created_at, now) ==
    LET th == Get(conditions, "reminder_days") IN
    IF ~Truthy(th) THEN Quiet
    ELSE IF CmpRaises(th) THEN Raised
    ELSE IF DaysElapsed(now, created_at) >= th.v
         THEN Hit([pred |-> "reminder_days", days |-> th.v])
         ELSE Quiet

\* lines 81-90
CheckTimePeriodDays(conditions, buy_price, created_at, current_price, now) ==
    LET th == Get(conditions, "time_period_days") IN
    IF ~Truthy(th) THEN Quiet
    ELSE IF CmpRaises(th) THEN Raised
    ELSE IF ~(DaysElapsed(now, created_at) >= th.v) THEN Quiet
    ELSE IF Truthy(buy_price)
         THEN IF CmpRaises(buy_price) THEN Raised
              ELSE LET num == current_price - buy_price.v
                       den == buy_price.v
                       pos == (num > 0 /\ den > 0) \/ (num < 0 /\ den < 0)
                   IN  IF pos THEN Hit([pred |-> "time_period_days",
                                        days |-> th.v, up |-> TRUE,
                                        pct |-> FmtPct(Abs(num), Abs(den))])
                       ELSE Quiet
         ELSE Hit([pred |-> "time_period_days", days |-> th.v, up |-> FALSE])

\* lines 93-96 without the test of note.buy_price
CheckTrailingStop_NoBuyPrice(conditions, buy_price, current_price) ==
    LET stop_price == Get(conditions, "trailing_stop") IN
    IF ~Truthy(stop_price) THEN Quiet
    ELSE IF CmpRaises(stop_price) THEN Raised
    ELSE IF current_price <= stop_price.v
         THEN Hit([pred |-> "trailing_stop", amount |-> Fmt2(stop_price.v)])
         ELSE Quiet

\* lines 93-96
CheckTrailingStop(conditions, buy_price, current_price) ==
    LET stop_price == Get(conditions, "trailing_stop") IN
    IF ~(Truthy(stop_price) /\ Truthy(buy_price)) THEN Quiet
    ELSE IF CmpRaises(stop_price) THEN Raised
    ELSE IF current_price <= stop_price.v
         THEN Hit([pred |-> "trailing_stop", amount |-> Fmt2(stop_price.v)])
         ELSE Quiet

\* the outcome of one evaluate_note call
NoAlert    == [kind |-> "none"]
RaiseOut   == [kind |-> "raise"]
AlertOut(a) == [kind |-> "alert", alert |-> a]

\* lines 40-96: the eight checks in the order of the code; an exception in
\* one of them leaves the function before anything is returned
AlertReasons(note, price_info, now) ==
    LET current_price == price_info.current_price
        conditions == IF note.conditions = NoneV THEN EmptyDict
                      ELSE note.conditions
        c1 == CheckPriceAbove(conditions, current_price)
        c2 == CheckPriceBelow(conditions, current_price)
        c3 == CheckPriceBetween(conditions, current_price)
        c4 == CheckPercentDrop(conditions, note.buy_price, current_price)
        c5 == CheckPercentChange(conditions, price_info)
        c6 == CheckReminderDays(conditions, note.created_at, now)
        c7 == CheckTimePeriodDays(conditions, note.buy_price, note.created_at,
                                  current_price, now)
        c8 == CheckTrailingStop(conditions, note.buy_price, current_price)
    IN  IF c1.raised \/ c2.raised \/ c3.raised \/ c4.raised
           \/ c5.raised \/ c6.raised \/ c7.raised \/ c8.raised
        THEN Raised
        ELSE [raised |-> FALSE,
              reasons |-> c1.reasons \o c2.reasons \o c3.reasons \o c4.reasons
                          \o c5.reasons \o c6.reasons \o c7.reasons \o c8.reasons]

\* lines 98-107
MakeAlert(note, price_info, alert_reasons) ==
    [note_id |-> note.id, symbol |-> note.symbol,
     current_price |-> price_info.current_price, buy_price |-> note.buy_price,
     reasons |-> alert_reasons, raw_text |-> note.raw_text,
     user_opinion |-> note.user_opinion]

\* lines 23-27: the guard that returns before the quote provider is called
GuardRejects(note) == ~Truthy(note.symbol) \/ ~note.active

\* lines 36-109: the part of evaluate_note that runs once a price is known
EvaluateWithInfo(note, price_info, now) ==
    LET r == AlertReasons(note, price_info, now) IN
    IF r.raised THEN RaiseOut
    ELSE IF r.reasons # << >>
         THEN AlertOut(MakeAlert(note, price_info, r.reasons))
         ELSE NoAlert

\* evaluate_note without the check of note.active (line 26)
evaluate_note_NoActiveGuard(note, price_info, now) ==
    IF ~Truthy(note.symbol) THEN NoAlert
    ELSE IF price_info = NoneV THEN NoAlert
    ELSE EvaluateWithInfo(note, price_info, now)

\* evaluate_note without the check of note.symbol (line 23)
evaluate_note_NoSymbolGuard(note, price_info, now) ==
    IF ~note.active THEN NoAlert
    ELSE IF price_info = NoneV THEN NoAlert
    ELSE EvaluateWithInfo(note, price_info, now)

\* evaluate_note with the time-based reminder looked at before the quote
evaluate_note_ReminderFirst(note, price_info, now) ==
    IF ~Truthy(note.symbol) THEN NoAlert
    ELSE IF ~note.active THEN NoAlert
    ELSE IF price_info = NoneV
         THEN LET conditions == IF note.conditions = NoneV THEN EmptyDict
                                ELSE note.conditions
                  c6 == CheckReminderDays(conditions, note.created_at, now)
              IN  IF c6.reasons # << >>
                  THEN AlertOut(MakeAlert(note, [current_price |-> 0], c6.reasons))
                  ELSE NoAlert
    ELSE EvaluateWithInfo(note, price_info, now)

\* evaluate_note with percent_above_buy looked at as well: a gain from
\* buy_price of that many percent or more is a reason
evaluate_note_PercentAboveBuy(note, price_info, now) ==
    IF ~Truthy(note.symbol) THEN NoAlert
    ELSE IF ~note.active THEN NoAlert
    ELSE IF price_info = NoneV THEN NoAlert
    ELSE LET conditions == IF note.conditions = NoneV THEN EmptyDict
                           ELSE note.conditions
             th == Get(conditions, "percent_above_buy")
             r  == AlertReasons(note, price_info, now)
         IN  IF /\ ~r.raised /\ IsNum(th) /\ Truthy(th)
                /\ IsNum(note.buy_price) /\ Truthy(note.buy_price)
                /\ (price_info.current_price - note.buy_price.v) * 100
                      >= th.v * note.buy_price.v
             THEN AlertOut(MakeAlert(note, price_info,
                     Append(r.reasons, [pred |-> "percent_above_buy"])))
             ELSE EvaluateWithInfo(note, price_info, now)

\* Evaluator.evaluate_note, price_info being what get_price_info returned
evaluate_note(note, price_info, now) ==
    IF ~Truthy(note.symbol) THEN NoAlert
    ELSE IF ~note.active THEN NoAlert
    ELSE IF price_info = NoneV THEN NoAlert
    ELSE EvaluateWithInfo(note, price_info, now)

\* ------------------------------------------------------------------ state
VARIABLES
    store,      \* the stock_notes table: id -> row, NoneV where no row exists
    clock,      \* datetime.now(), in clock units
    pc,         \* where the batch check run stands: idle, eval, mark, deact, done
    notes,      \* check_mode's notes: the list get_active_notes returned
    idx,        \* the position of the loop the run is in
    alerts,     \* evaluate_all's alerts list
    store0,     \* history: the table when the run fetched its batch
    nchecked,   \* history: update_last_checked calls per id in this run
    quoted,     \* history: what the provider answered per id in this run
    alerted,    \* history: ids a run returned an alert for, not activated since
    eNote,      \* evaluator harness: the note handed to evaluate_note
    eInfo,      \*   what get_price_info returned during the call
    eNow,       \*   datetime.now() during the call
    eOut,       \*   the outcome of the call
    eOut2,      \*   the outcome of a second call on the same note, quote and time
    calls,      \* history: the get_price_info calls of this run, with their answers
    pc2,        \* a second check run on the same table: where it stands,
    notes2,     \*   the list it fetched,
    idx2,       \*   the position of its loop
    alerts2     \*   and the alerts its evaluate_all returned

batchVars == << store, clock, pc, notes, idx, alerts,
                store0, nchecked, quoted, calls, alerted >>
evalVars  == << eNote, eInfo, eNow, eOut, eOut2 >>
run2Vars  == << pc2, notes2, idx2, alerts2 >>
vars      == << store, clock, pc, notes, idx, alerts,
                store0, nchecked, quoted, calls, alerted,
                eNote, eInfo, eNow, eOut, eOut2, pc2, notes2, idx2, alerts2 >>

Ids == 1 .. NumNotes

\* --------------------------------------------------------- quote provider
\* what get_price_info builds at lines 79-84 (the timestamp is never read)
PriceInfo(symbol, current_price, previous_close) ==
    [current_price |-> current_price,
     previous_close |-> IF Truthy(previous_close) THEN previous_close ELSE NoneV,
     symbol |-> symbol]

\* the answers of the provider in the batch model
Prices == {19999, 20000}
Closes == {NoneV}

\* MarketData.get_price_info: None for an empty symbol, for a symbol without
\* a price and for any exception of the provider; else the price info
get_price_info(symbol) ==
    IF ~Truthy(symbol) THEN {NoneV}
    ELSE {NoneV} \cup { PriceInfo(symbol, p, c) : p \in Prices, c \in Closes }

\* ------------------------------------------------------------------ notes
\* StockNote.create_new
create_new(id, raw_text, symbol, action_type, buy_price, conditions, user_opinion, now) ==
    [id |-> id, raw_text |-> raw_text, symbol |-> symbol,
     action_type |-> action_type, buy_price |-> buy_price,
     conditions |-> IF conditions = NoneV THEN EmptyDict ELSE conditions,
     user_opinion |-> user_opinion, created_at |-> now,
     last_checked |-> NoneV, active |-> TRUE]

\* datetime.isoformat() and datetime.fromisoformat()
Iso(ts)      == [t |-> "iso", ts |-> ts]
FromIso(x)   == x.ts

\* a JSON text is the list of its tokens: the punctuation marks and the
\* literals (numbers, strings, null)
Tok(c)     == [t |-> "tok", c |-> c]
Text(toks) == [t |-> "text", toks |-> toks]
IsLiteral(x) == x.t \in {"num", "str", "none"}

\* the order in which the keys of a conditions dict are written
KeyOrder == PredOrder \o << "percent_above_buy" >>

\* json.dumps of one value of a conditions dict: a literal, or the object
\* of a price range
DumpValue(v) ==
    IF v.t = "dict"
    THEN << Tok("{"), Str("min"), Tok(":"), v.min, Tok(","),
            Str("max"), Tok(":"), v.max, Tok("}") >>
    ELSE << v >>

\* the members "key": value of dict d for the keys listed, comma-separated
RECURSIVE DumpItems(_, _)
DumpItems(d, keys) ==
    IF keys = << >> THEN << >>
    ELSE << Str(Head(keys)), Tok(":") >> \o DumpValue(d[Head(keys)])
         \o (IF Tail(keys) = << >> THEN << >>
             ELSE << Tok(",") >> \o DumpItems(d, Tail(keys)))

\* json.dumps(d) of a conditions dict
JsonDumps(d) ==
    Text(<< Tok("{") >>
         \o DumpItems(d, SelectSeq(KeyOrder, LAMBDA k : k \in DOMAIN d))
         \o << Tok("}") >>)

\* the JSON decoder: what was read and the position after it, or a failure
Fail == [ok |-> FALSE]
Got(val, next) == [ok |-> TRUE, val |-> val, next |-> next]

\* a decoded inner object is a price range
AsRange(obj) == Dict(Get(obj, "min"), Get(obj, "max"))

RECURSIVE ParseValue(_, _)
RECURSIVE ParseMembers(_, _, _)

\* an object whose "{" is at position i
ParseObject(toks, i) ==
    IF i + 1 <= Len(toks) /\ toks[i + 1] = Tok("}") THEN Got(EmptyDict, i + 2)
    ELSE ParseMembers(toks, i + 1, EmptyDict)

\* the members of an object from position i on, acc holding those read
ParseMembers(toks, i, acc) ==
    IF i + 2 > Len(toks) THEN Fail
    ELSE IF toks[i].t # "str" \/ toks[i + 1] # Tok(":") THEN Fail
    ELSE LET v == ParseValue(toks, i + 2) IN
         IF ~v.ok THEN Fail
         ELSE LET acc2 == [k \in DOMAIN acc \cup {toks[i].s} |->
                             IF k = toks[i].s THEN v.val ELSE acc[k]]
              IN  IF v.next > Len(toks) THEN Fail
                  ELSE IF toks[v.next] = Tok("}") THEN Got(acc2, v.next + 1)
                  ELSE IF toks[v.next] = Tok(",")
                       THEN ParseMembers(toks, v.next + 1, acc2)
                  ELSE Fail

\* a value at position i: an inner object or a literal
ParseValue(toks, i) ==
    IF i > Len(toks) THEN Fail
    ELSE IF toks[i] = Tok("{")
         THEN LET o == ParseObject(toks, i) IN
              IF o.ok THEN Got(AsRange(o.val), o.next) ELSE Fail
    ELSE IF IsLiteral(toks[i]) THEN Got(toks[i], i + 1)
    ELSE Fail

\* the whole text decoded: one value and nothing after it
ParseText(toks) ==
    LET r == IF toks # << >> /\ toks[1] = Tok("{")
             THEN ParseObject(toks, 1) ELSE ParseValue(toks, 1)
    IN  IF r.ok /\ r.next = Len(toks) + 1 THEN r ELSE Fail

\* json.loads(text); a text that is no JSON document makes it raise
\* JSONDecodeError
BadJson == Text(<< Tok("{"), Str("price_above"), Tok(":") >>)
JsonLoadsRaises(b) == ~ParseText(b.toks).ok
JsonLoads(b) == ParseText(b.toks).val

\* the TEXT column is empty or NULL: data.get("conditions") is falsy
BlobFalsy(b) == b = NoneV \/ b = Text(<< >>)

\* to_dict that does not write the conditions
to_dict_NoConditions(note) ==
    [id |-> note.id, raw_text |-> note.raw_text, symbol |-> note.symbol,
     action_type |-> note.action_type, buy_price |-> note.buy_price,
     conditions |-> NoneV,
     user_opinion |-> note.user_opinion,
     created_at |-> Iso(note.created_at),
     last_checked |-> IF note.last_checked # NoneV
                      THEN Iso(note.last_checked.v) ELSE NoneV,
     active |-> IF note.active THEN 1 ELSE 0]

\* a dict is truthy when it has a key; note.conditions may also be None
DictTruthy(d) == d # NoneV /\ DOMAIN d # {}

\* StockNote.to_dict, lines 54-68
to_dict(note) ==
    [id |-> note.id, raw_text |-> note.raw_text, symbol |-> note.symbol,
     action_type |-> note.action_type, buy_price |-> note.buy_price,
     conditions |-> IF DictTruthy(note.conditions)
                    THEN JsonDumps(note.conditions) ELSE NoneV,
     user_opinion |-> note.user_opinion,
     created_at |-> Iso(note.created_at),
     last_checked |-> IF note.last_checked # NoneV
                      THEN Iso(note.last_checked.v) ELSE NoneV,
     active |-> IF note.active THEN 1 ELSE 0]

\* StockNote.from_dict, lines 70-90
from_dict(data) ==
    [id |-> data.id, raw_text |-> data.raw_text, symbol |-> data.symbol,
     action_type |-> data.action_type, buy_price |-> data.buy_price,
     conditions |-> IF BlobFalsy(data.conditions) THEN NoneV
                    ELSE IF JsonLoadsRaises(data.conditions) THEN EmptyDict
                    ELSE JsonLoads(data.conditions),
     user_opinion |-> data.user_opinion,
     created_at |-> FromIso(data.created_at),
     last_checked |-> IF data.last_checked # NoneV
                      THEN Num(FromIso(data.last_checked)) ELSE NoneV,
     active |-> data.active # 0]

\* ------------------------------------------------------------------ store
HasRow(s, id) == id \in DOMAIN s /\ s[id] # NoneV

\* the SELECT of get_active_notes: q lists the ids of the rows with
\* active = 1, newest first; rows of equal created_at come in an order
\* SQLite is free to choose
IsActiveOrder(s, q) ==
    /\ \A i \in 1 .. Len(q) : HasRow(s, q[i]) /\ s[q[i]].active = 1
    /\ \A id \in DOMAIN s : (HasRow(s, id) /\ s[id].active = 1)
                              => \E i \in 1 .. Len(q) : q[i] = id
    /\ \A i, j \in 1 .. Len(q) : i < j =>
           /\ q[i] # q[j]
           /\ s[q[i]].created_at.ts >= s[q[j]].created_at.ts

\* get_active_notes without WHERE active = 1
get_active_notes_AllRows(s) ==
    { [i \in 1 .. Len(q) |-> from_dict(s[q[i]])] :
        q \in { r \in UNION { [1 .. n -> DOMAIN s] : n \in 0 .. Cardinality(DOMAIN s) } :
                  /\ \A i \in 1 .. Len(r) : HasRow(s, r[i])
                  /\ \A id \in DOMAIN s : HasRow(s, id) => \E i \in 1 .. Len(r) : r[i] = id
                  /\ \A i, j \in 1 .. Len(r) : i < j => r[i] # r[j] } }

\* Storage.get_active_notes: the lists it may return
get_active_notes(s) ==
    { [i \in 1 .. Len(q) |-> from_dict(s[q[i]])] :
        q \in { r \in UNION { [1 .. n -> DOMAIN s] : n \in 0 .. Cardinality(DOMAIN s) } :
                  IsActiveOrder(s, r) } }

\* update_last_checked that writes a time before the epoch
update_last_checked_Backdated(s, note_id, now) ==
    [i \in DOMAIN s |->
        IF HasRow(s, i) /\ s[i].id = note_id
        THEN [s[i] EXCEPT !.last_checked = Iso(-now)] ELSE s[i]]

\* update_last_checked without its WHERE clause
update_last_checked_NoWhere(s, note_id, now) ==
    [i \in DOMAIN s |->
        IF HasRow(s, i) THEN [s[i] EXCEPT !.last_checked = Iso(now)] ELSE s[i]]

\* Storage.update_last_checked: UPDATE ... SET last_checked = now WHERE id = ?
update_last_checked(s, note_id, now) ==
    [i \in DOMAIN s |->
        IF HasRow(s, i) /\ s[i].id = note_id
        THEN [s[i] EXCEPT !.last_checked = Iso(now)] ELSE s[i]]

\* deactivate_note without its WHERE clause
deactivate_note_AllRows(s, note_id) ==
    [i \in DOMAIN s |->
        IF HasRow(s, i) THEN [s[i] EXCEPT !.active = 0] ELSE s[i]]

\* deactivate_note as SET active = 1 - active
deactivate_note_Toggle(s, note_id) ==
    [i \in DOMAIN s |->
        IF HasRow(s, i) /\ s[i].id = note_id
        THEN [s[i] EXCEPT !.active = 1 - @] ELSE s[i]]

\* deactivate_note whose UPDATE is never committed
deactivate_note_NoCommit(s, note_id) == s

\* Storage.deactivate_note: UPDATE ... SET active = 0 WHERE id = ?
deactivate_note(s, note_id) ==
    [i \in DOMAIN s |->
        IF HasRow(s, i) /\ s[i].id = note_id
        THEN [s[i] EXCEPT !.active = 0] ELSE s[i]]

\* Storage.activate_note: UPDATE ... SET active = 1 WHERE id = ?
activate_note(s, note_id) ==
    [i \in DOMAIN s |->
        IF HasRow(s, i) /\ s[i].id = note_id
        THEN [s[i] EXCEPT !.active = 1] ELSE s[i]]

\* Storage.add_note: INSERT of note.to_dict(); the primary key refuses a
\* second row of the same id (sqlite3.Error, caught: the table is unchanged)
add_note(s, note) ==
    IF HasRow(s, note.id) THEN s ELSE [s EXCEPT ![note.id] = to_dict(note)]

\* Storage.get_all_notes(include_inactive=True)
get_all_notes(s) == { from_dict(s[i]) : i \in { j \in DOMAIN s : HasRow(s, j) } }

\* ------------------------------------------------------------ add command
\* what LLMParser.parse may hand back for the notes of the batch model:
\* _normalize_result turns every scalar condition into a float or None and
\* leaves price_between as the LLM wrote it
ParsedSymbols == {NoneV, Str("AAPL")}
ParsedConditions ==
    { [price_above |-> Num(20000)],
      [reminder_days |-> Num(1)],
      [price_between |-> Dict(Str("300"), Str("310"))] }

\* add_mode without its two validations: whatever was parsed is stored
AddNote_Unvalidated ==
    /\ pc = "idle"
    /\ \E symbol \in ParsedSymbols, conditions \in ParsedConditions :
         \E id \in Ids :
            /\ ~HasRow(store, id)
            /\ \A j \in Ids : j < id => HasRow(store, j)
            /\ store' = add_note(store,
                          create_new(id, "text", symbol, NoneV, NoneV,
                                     conditions, NoneV, clock))
    /\ UNCHANGED << clock, pc, notes, idx, alerts, store0, nchecked,
                    quoted, calls, alerted, eNote, eInfo, eNow, eOut, eOut2, run2Vars >>

\* add_mode, lines 46-79, and show_add_note: the note is created and stored
\* only if the parsed symbol is non-empty and the provider resolves it
AddNote ==
    /\ pc = "idle"
    /\ \E symbol \in ParsedSymbols, conditions \in ParsedConditions :
         \E price_info \in get_price_info(symbol) :
           IF ~Truthy(symbol) \/ price_info = NoneV
           THEN store' = store
           ELSE \E id \in Ids :
                  /\ ~HasRow(store, id)
                  /\ \A j \in Ids : j < id => HasRow(store, j)
                  /\ store' = add_note(store,
                                create_new(id, "text", symbol, NoneV, NoneV,
                                           conditions, NoneV, clock))
    /\ UNCHANGED << clock, pc, notes, idx, alerts, store0, nchecked,
                    quoted, calls, alerted, eNote, eInfo, eNow, eOut, eOut2, run2Vars >>

\* --------------------------------------------------------------- activate
\* activate_mode --id, lines 270-283: only an existing, inactive note
ActivateById ==
    /\ pc = "idle"
    /\ \E note_id \in Ids :
         /\ HasRow(store, note_id)
         /\ ~from_dict(store[note_id]).active
         /\ store' = activate_note(store, note_id)
         /\ alerted' = alerted \ {note_id}
    /\ UNCHANGED << clock, pc, notes, idx, alerts, store0, nchecked,
                    quoted, calls, eNote, eInfo, eNow, eOut, eOut2, run2Vars >>

\* storage.activate_note(note.id) for every note of a list
RECURSIVE ActivateEach(_, _)
ActivateEach(s, ids) ==
    IF ids = {} THEN s
    ELSE LET id == CHOOSE x \in ids : TRUE
         IN  ActivateEach(activate_note(s, id), ids \ {id})

\* activate_mode --all-inactive, lines 240-253: every inactive note
ActivateAllInactive ==
    /\ pc = "idle"
    /\ LET inactive_notes == { n \in get_all_notes(store) : ~n.active } IN
         /\ inactive_notes # {}
         /\ store' = ActivateEach(store, { n.id : n \in inactive_notes })
         /\ alerted' = alerted \ { n.id : n \in inactive_notes }
    /\ UNCHANGED << clock, pc, notes, idx, alerts, store0, nchecked,
                    quoted, calls, eNote, eInfo, eNow, eOut, eOut2, run2Vars >>

\* activate_mode --symbol, lines 255-268: the inactive notes of one symbol
\* (str.upper() leaves the upper-case symbols of the model as they are)
ActivateBySymbol ==
    /\ pc = "idle"
    /\ \E symbol \in {"AAPL", "MSFT"} :
         LET matching_notes == { n \in get_all_notes(store) :
                                   /\ Truthy(n.symbol)
                                   /\ n.symbol.s = symbol
                                   /\ ~n.active }
         IN  /\ store' = ActivateEach(store, { n.id : n \in matching_notes })
             /\ alerted' = alerted \ { n.id : n \in matching_notes }
    /\ UNCHANGED << clock, pc, notes, idx, alerts, store0, nchecked,
                    quoted, calls, eNote, eInfo, eNow, eOut, eOut2, run2Vars >>

\* a day passes between two commands
Tick ==
    /\ pc = "idle"
    /\ clock < MaxNow * DayLen
    /\ clock' = clock + DayLen
    /\ UNCHANGED << store, pc, notes, idx, alerts, store0, nchecked,
                    quoted, calls, alerted, eNote, eInfo, eNow, eOut, eOut2, run2Vars >>

\* -------------------------------------------------------- batch check run
NoCounts == [i \in Ids |-> 0]
NoQuotes == [i \in Ids |-> "unset"]

\* check_mode lines 402-419 (show_check_alerts lines 428-443): fetch the
\* active notes, return at once when there are none, else start evaluate_all
StartCheck ==
    /\ pc = "idle"
    /\ \E fetched \in get_active_notes(store) :
         IF fetched = << >>
         THEN UNCHANGED << pc, notes, idx, alerts, store0, nchecked,
                           quoted, calls >>
         ELSE /\ pc' = "eval"
              /\ notes' = fetched
              /\ idx' = 1
              /\ alerts' = << >>
              /\ store0' = store
              /\ nchecked' = NoCounts
              /\ quoted' = NoQuotes
              /\ calls' = << >>
    /\ UNCHANGED << store, clock, alerted, eNote, eInfo, eNow, eOut, eOut2, run2Vars >>

\* the alerts list with each new alert put first
Collect_Prepend(list, out) ==
    IF out.kind = "alert" THEN << out.alert >> \o list ELSE list

\* the alerts list after one pass of evaluate_all's loop, lines 123-125
Collect(list, out) ==
    IF out.kind = "alert" THEN Append(list, out.alert) ELSE list

\* what the loop does once every note is evaluated: evaluate_all returns,
\* show_alerts prints, and check_mode goes on to its first persistence loop
AfterEvaluation(list) ==
    /\ pc' = "mark"
    /\ idx' = 1
    /\ alerted' = alerted \cup { list[i].note_id : i \in 1 .. Len(list) }

\* an exception leaves evaluate_all and check_mode's try block (lines
\* 440-443 print it): nothing after the failing call is executed
Abort ==
    /\ pc' = "idle"
    /\ notes' = << >>
    /\ alerts' = << >>
    /\ idx' = 1
    /\ store0' = [i \in Ids |-> NoneV]
    /\ nchecked' = NoCounts

\* the provider is asked again when it answered None
ProviderCalls_Retry(note, price_info) ==
    IF GuardRejects(note) THEN << >>
    ELSE IF price_info = NoneV
         THEN << [id |-> note.id, info |-> price_info],
                 [id |-> note.id, info |-> price_info] >>
         ELSE << [id |-> note.id, info |-> price_info] >>

\* the get_price_info calls of one evaluate_note(note), lines 23-34: none
\* when a guard returns first, else one, whatever the answer price_info
ProviderCalls(note, price_info) ==
    IF GuardRejects(note) THEN << >>
    ELSE << [id |-> note.id, info |-> price_info] >>

\* one pass of evaluate_all's loop, lines 122-125: evaluate_note(note)
\* with the quote the provider gives during the call; persist tells whether
\* the pass also writes the note's last_checked (the code's does not)
EvalPass(persist) ==
    /\ pc = "eval"
    /\ LET note == notes[idx] IN
       \E price_info \in (IF GuardRejects(note) THEN {NoneV}
                          ELSE get_price_info(note.symbol)) :
         LET out == evaluate_note(note, price_info, clock) IN
         /\ IF out.kind = "raise"
            THEN Abort /\ quoted' = NoQuotes /\ calls' = << >> /\ alerted' = alerted
            ELSE /\ alerts' = Collect(alerts, out)
                 /\ quoted' = [quoted EXCEPT ![note.id] =
                                  IF GuardRejects(note) THEN "unset"
                                  ELSE IF price_info = NoneV THEN "none"
                                  ELSE "some"]
                 /\ calls' = calls \o ProviderCalls(note, price_info)
                 /\ store0' = store0
                 /\ nchecked' = nchecked
                 /\ notes' = notes
                 /\ IF idx < Len(notes)
                    THEN idx' = idx + 1 /\ pc' = pc /\ alerted' = alerted
                    ELSE AfterEvaluation(Collect(alerts, out))
         /\ store' = IF persist /\ out.kind # "raise"
                     THEN update_last_checked(store, note.id, clock) ELSE store
    /\ UNCHANGED << clock, eNote, eInfo, eNow, eOut, eOut2, run2Vars >>

\* a loop that marks each note checked as soon as it is evaluated
EvalStep_Interleaved == EvalPass(TRUE)

EvalStep == EvalPass(FALSE)

\* the notes the loop of lines 425-426 runs over, had it skipped the notes
\* whose quote was not resolved
CheckedNotes_QuotedOnly(batch, answers) ==
    SelectSeq(batch, LAMBDA n : answers[n.id] # "none")

\* the notes the loop of lines 425-426 runs over: all of the batch
CheckedNotes(batch, answers) == batch

\* the whole loop of lines 425-426 on table s, from position i of the batch
RECURSIVE MarkAll(_, _, _, _)
MarkAll(s, batch, i, now) ==
    IF i > Len(batch) THEN s
    ELSE MarkAll(update_last_checked(s, batch[i].id, now), batch, i + 1, now)

\* the whole loop of lines 429-432 on table s, from position i of the alerts
RECURSIVE DeactAll(_, _, _)
DeactAll(s, list, i) ==
    IF i > Len(list) THEN s
    ELSE DeactAll(deactivate_note(s, list[i].note_id), list, i + 1)

\* one pass of the loop of lines 425-426: update_last_checked(note.id)
MarkStep ==
    /\ pc = "mark"
    /\ LET todo == CheckedNotes(notes, quoted) IN
       /\ IF idx <= Len(todo)
          THEN /\ store' = update_last_checked(store, todo[idx].id, clock)
               /\ nchecked' = [nchecked EXCEPT ![todo[idx].id] = @ + 1]
          ELSE UNCHANGED << store, nchecked >>
       /\ IF idx < Len(todo)
          THEN idx' = idx + 1 /\ pc' = pc
          ELSE idx' = 1 /\ pc' = (IF alerts # << >> THEN "deact" ELSE "done")
    /\ UNCHANGED << clock, notes, alerts, store0, quoted, calls, alerted,
                    eNote, eInfo, eNow, eOut, eOut2, run2Vars >>

\* one pass of the loop of lines 429-432: deactivate_note(alert['note_id'])
DeactStep ==
    /\ pc = "deact"
    /\ store' = deactivate_note(store, alerts[idx].note_id)
    /\ IF idx < Len(alerts)
       THEN idx' = idx + 1 /\ pc' = pc
       ELSE idx' = 1 /\ pc' = "done"
    /\ UNCHANGED << clock, notes, alerts, store0, nchecked, quoted, calls,
                    alerted, eNote, eInfo, eNow, eOut, eOut2, run2Vars >>

\* lines 434-438: the summary is printed and check_mode returns
FinishCheck ==
    /\ pc = "done"
    /\ pc' = "idle"
    /\ notes' = << >>
    /\ alerts' = << >>
    /\ store0' = [i \in Ids |-> NoneV]
    /\ nchecked' = NoCounts
    /\ quoted' = NoQuotes
    /\ calls' = << >>
    /\ UNCHANGED << store, clock, idx, alerted, eNote, eInfo, eNow, eOut, eOut2, run2Vars >>

\* ------------------------------------------------- a second, overlapping run
\* Evaluator.evaluate_all, lines 111-126, from position i of the list with
\* the alerts acc collected so far: the outcomes it may have, one for each
\* way the provider may answer; an exception of evaluate_note is its own
RECURSIVE EvalAllFrom(_, _, _, _)
EvalAllFrom(list, i, acc, now) ==
    IF i > Len(list) THEN { [kind |-> "list", alerts |-> acc] }
    ELSE UNION {
           LET out == evaluate_note(list[i], price_info, now) IN
           IF out.kind = "raise" THEN { RaiseOut }
           ELSE EvalAllFrom(list, i + 1, Collect(acc, out), now) :
             price_info \in (IF GuardRejects(list[i]) THEN {NoneV}
                             ELSE get_price_info(list[i].symbol)) }

evaluate_all(list, now) == EvalAllFrom(list, 1, << >>, now)

\* check_mode lines 402-411 of the second run: it fetches the active notes
\* whatever the first run is doing
StartCheck2 ==
    /\ pc2 = "idle"
    /\ \E fetched \in get_active_notes(store) :
         IF fetched = << >>
         THEN UNCHANGED run2Vars
         ELSE /\ pc2' = "eval"
              /\ notes2' = fetched
              /\ idx2' = 1
              /\ alerts2' = << >>
    /\ UNCHANGED << store, clock, pc, notes, idx, alerts, store0, nchecked,
                    quoted, calls, alerted, eNote, eInfo, eNow, eOut, eOut2 >>

\* line 419 of the second run: evaluate_all touches no table, so the whole
\* call is one step; an exception ends the run (lines 440-443)
EvaluateAll2 ==
    /\ pc2 = "eval"
    /\ \E out \in evaluate_all(notes2, clock) :
         IF out.kind = "raise"
         THEN /\ pc2' = "idle"
              /\ notes2' = << >>
              /\ alerts2' = << >>
              /\ idx2' = 1
              /\ alerted' = alerted
         ELSE /\ pc2' = "mark"
              /\ notes2' = notes2
              /\ alerts2' = out.alerts
              /\ idx2' = 1
              /\ alerted' = alerted \cup
                     { out.alerts[i].note_id : i \in 1 .. Len(out.alerts) }
    /\ UNCHANGED << store, clock, pc, notes, idx, alerts, store0, nchecked,
                    quoted, calls, eNote, eInfo, eNow, eOut, eOut2 >>

\* one pass of the loop of lines 425-426 of the second run
MarkStep2 ==
    /\ pc2 = "mark"
    /\ store' = update_last_checked(store, notes2[idx2].id, clock)
    /\ IF idx2 < Len(notes2)
       THEN idx2' = idx2 + 1 /\ pc2' = pc2
       ELSE idx2' = 1 /\ pc2' = (IF alerts2 # << >> THEN "deact" ELSE "done")
    /\ UNCHANGED << clock, pc, notes, idx, alerts, store0, nchecked, quoted,
                    calls, alerted, eNote, eInfo, eNow, eOut, eOut2,
                    notes2, alerts2 >>

\* one pass of the loop of lines 429-432 of the second run
DeactStep2 ==
    /\ pc2 = "deact"
    /\ store' = deactivate_note(store, alerts2[idx2].note_id)
    /\ IF idx2 < Len(alerts2)
       THEN idx2' = idx2 + 1 /\ pc2' = pc2
       ELSE idx2' = 1 /\ pc2' = "done"
    /\ UNCHANGED << clock, pc, notes, idx, alerts, store0, nchecked, quoted,
                    calls, alerted, eNote, eInfo, eNow, eOut, eOut2,
                    notes2, alerts2 >>

\* ------------------------------------------------------ evaluator harness
\* The notes, quotes and times one evaluate_note call is tried on.  A scalar
\* condition is a float or None (LLMParser._normalize_result); price_between
\* is whatever the LLM wrote: a non-dict, a pair of numbers, a pair with a
\* bound missing, a pair of strings.
CondKeys == { "price_above", "price_below", "price_between", "percent_drop",
              "percent_change", "reminder_days", "time_period_days",
              "trailing_stop", "percent_above_buy" }

CondValues(k) ==
    CASE k = "price_above"       -> { Num(0), Num(20000) }
      [] k = "price_below"       -> { Num(17000) }
      [] k = "price_between"     -> { Num(5), Dict(Num(17000), Num(20000)),
                                      Dict(NoneV, Num(20000)),
                                      Dict(Num(0), Num(20000)),
                                      Dict(Str("300"), Str("310")) }
      [] k = "percent_drop"      -> { Num(15), Num(29) }
      [] k = "percent_change"    -> { Num(5), Num(-5), Num(29) }
      [] k = "reminder_days"     -> { Num(1) }
      [] k = "time_period_days"  -> { Num(1) }
      [] k = "trailing_stop"     -> { Num(17000) }
      [] k = "percent_above_buy" -> { Num(5) }

AllCondValues == UNION { CondValues(k) : k \in CondKeys }

\* the conditions dicts with at most n keys, each with one of its values
ConditionsUpTo(n) ==
    UNION { { f \in [K -> AllCondValues] : \A k \in K : f[k] \in CondValues(k) } :
              K \in { J \in SUBSET CondKeys : Cardinality(J) <= n } }

\* conditions in which every key is there and nothing is set: all None (as
\* _safe_float leaves what it cannot convert), all 0, and None with zeros
UnsetConditions ==
    { [k \in CondKeys |-> NoneV], [k \in CondKeys |-> Num(0)],
      [k \in CondKeys |-> IF k \in {"price_between", "reminder_days"}
                          THEN NoneV ELSE Num(0)] }

EvalConditions == {NoneV} \cup ConditionsUpTo(MaxPreds) \cup UnsetConditions

EvalSymbols   == { NoneV, Str(""), Str("AAPL") }
EvalBuyPrices == { NoneV, Num(0), Num(20000) }
EvalPrices    == { 14200, 17000, 19999, 20000, 21000 }
EvalCloses    == { NoneV, Num(0), Num(20000) }
EvalTimes     == { 0, DayLen - 1, DayLen, 2 * DayLen }

EvalNote(sym, bp, cnd, act) ==
    [id |-> 1, raw_text |-> "text", symbol |-> sym, action_type |-> NoneV,
     buy_price |-> bp, conditions |-> cnd, user_opinion |-> NoneV,
     created_at |-> 0, last_checked |-> NoneV, active |-> act]

\* the notes that pass the two guards, with every conditions dict, and the
\* notes a guard rejects, with the dicts of one key at most
EvalNotes ==
    { EvalNote(Str("AAPL"), bp, cnd, TRUE) :
        bp \in EvalBuyPrices, cnd \in EvalConditions }
    \cup
    { n \in { EvalNote(sym, bp, cnd, act) :
                sym \in EvalSymbols, bp \in EvalBuyPrices,
                cnd \in {NoneV} \cup ConditionsUpTo(1), act \in BOOLEAN } :
        ~Truthy(n.symbol) \/ ~n.active }

\* what an injected market_data may answer to get_price_info
EvalInfos ==
    {NoneV} \cup { PriceInfo(Str("AAPL"), p, c) : p \in EvalPrices, c \in EvalCloses }

NotCalled == [kind |-> "idle"]

\* evaluate_note that clears note.active when it returns an alert
NoteAfterEvaluation_Deactivates(note, out) ==
    IF out.kind = "alert" THEN [note EXCEPT !.active = FALSE] ELSE note

\* the note object once evaluate_note(note) is over, out being its outcome:
\* lines 16-109 read the note and assign none of its fields
NoteAfterEvaluation(note, out) == note

\* one call evaluator.evaluate_note(note)
CallEvaluateNote ==
    /\ eOut = NotCalled
    /\ \E price_info \in EvalInfos, now \in EvalTimes :
         /\ eInfo' = price_info
         /\ eNow' = now
         /\ eOut' = evaluate_note(eNote, price_info, now)
         /\ eNote' = NoteAfterEvaluation(eNote, evaluate_note(eNote, price_info, now))
    /\ UNCHANGED << store, clock, pc, notes, idx, alerts, store0, nchecked,
                    quoted, calls, alerted, eOut2, run2Vars >>

\* a second call on the same note object, the provider answering as before
\* and at the same time
CallEvaluateNoteAgain ==
    /\ eOut # NotCalled
    /\ eOut2 = NotCalled
    /\ eOut2' = evaluate_note(eNote, eInfo, eNow)
    /\ eNote' = NoteAfterEvaluation(eNote, evaluate_note(eNote, eInfo, eNow))
    /\ UNCHANGED << store, clock, pc, notes, idx, alerts, store0, nchecked,
                    quoted, calls, alerted, eInfo, eNow, eOut, run2Vars >>

\* ---------------------------------------------------------- specification
NoNote == create_new(1, "text", NoneV, NoneV, NoneV, NoneV, NoneV, 0)

Init ==
    /\ store = [i \in Ids |-> NoneV]
    /\ clock = 0
    /\ pc = "idle"
    /\ notes = << >>
    /\ idx = 1
    /\ alerts = << >>
    /\ store0 = [i \in Ids |-> NoneV]
    /\ nchecked = NoCounts
    /\ quoted = NoQuotes
    /\ calls = << >>
    /\ eOut2 = NotCalled
    /\ pc2 = "idle"
    /\ notes2 = << >>
    /\ idx2 = 1
    /\ alerts2 = << >>
    /\ alerted = {}
    /\ eNote = NoNote
    /\ eInfo = NoneV
    /\ eNow = 0
    /\ eOut = NotCalled

Next ==
    \/ AddNote
    \/ ActivateById
    \/ ActivateAllInactive
    \/ ActivateBySymbol
    \/ Tick
    \/ StartCheck
    \/ EvalStep
    \/ MarkStep
    \/ DeactStep
    \/ FinishCheck

Spec == Init /\ [][Next]_vars
\* the evaluator alone: any note of the harness, evaluated any number of times
InitEval ==
    /\ store = [i \in Ids |-> NoneV]
    /\ clock = 0
    /\ pc = "idle"
    /\ notes = << >>
    /\ idx = 1
    /\ alerts = << >>
    /\ store0 = [i \in Ids |-> NoneV]
    /\ nchecked = NoCounts
    /\ quoted = NoQuotes
    /\ calls = << >>
    /\ eOut2 = NotCalled
    /\ pc2 = "idle"
    /\ notes2 = << >>
    /\ idx2 = 1
    /\ alerts2 = << >>
    /\ alerted = {}
    /\ eNote \in EvalNotes
    /\ eInfo = NoneV
    /\ eNow = 0
    /\ eOut = NotCalled

NextEval ==
    \/ CallEvaluateNote
    \/ CallEvaluateNoteAgain

SpecEval == InitEval /\ [][NextEval]_vars

\* two check runs started on one table, each run once, their steps
\* interleaved in any order.  The table holds two active notes that add
\* stored at the same time.
RaceIds == {1, 2}

RaceStores ==
    { add_note(add_note([i \in Ids |-> NoneV],
                        create_new(1, "text", Str("AAPL"), NoneV, NoneV, c1, NoneV, 0)),
               create_new(2, "text", Str("AAPL"), NoneV, NoneV, c2, NoneV, 0)) :
        c1 \in ParsedConditions, c2 \in ParsedConditions }

InitConc ==
    /\ store \in RaceStores
    /\ clock = 0
    /\ pc = "idle"
    /\ notes = << >>
    /\ idx = 1
    /\ alerts = << >>
    /\ store0 = [i \in Ids |-> NoneV]
    /\ nchecked = NoCounts
    /\ quoted = NoQuotes
    /\ calls = << >>
    /\ alerted = {}
    /\ eNote = NoNote
    /\ eInfo = NoneV
    /\ eNow = 0
    /\ eOut = NotCalled
    /\ eOut2 = NotCalled
    /\ pc2 = "idle"
    /\ notes2 = << >>
    /\ idx2 = 1
    /\ alerts2 = << >>

NextConc ==
    \/ StartCheck
    \/ EvalStep
    \/ MarkStep
    \/ DeactStep
    \/ StartCheck2
    \/ EvaluateAll2
    \/ MarkStep2
    \/ DeactStep2

SpecConc == InitConc /\ [][NextConc]_vars

\* evaluate_all on any list of notes, not only on what get_active_notes
\* returns: a note of the list may be inactive or without symbol, and a note
\* may be in the list twice
ListNote(id, symbol, active, conditions) ==
    [create_new(id, "text", symbol, NoneV, NoneV, conditions, NoneV, 0)
        EXCEPT !.active = active]

ListNotes ==
    { ListNote(id, sa[1], sa[2], cnd) :
        id \in Ids,
        sa \in { << Str("AAPL"), TRUE >>, << Str("AAPL"), FALSE >>, << NoneV, TRUE >> },
        cnd \in ParsedConditions }

NoteLists == UNION { [1 .. n -> ListNotes] : n \in 1 .. NumNotes }

InitAll ==
    /\ store = [i \in Ids |-> NoneV]
    /\ clock = 0
    /\ pc = "eval"
    /\ notes \in NoteLists
    /\ idx = 1
    /\ alerts = << >>
    /\ store0 = [i \in Ids |-> NoneV]
    /\ nchecked = NoCounts
    /\ quoted = NoQuotes
    /\ calls = << >>
    /\ alerted = {}
    /\ eNote = NoNote
    /\ eInfo = NoneV
    /\ eNow = 0
    /\ eOut = NotCalled
    /\ eOut2 = NotCalled
    /\ pc2 = "idle"
    /\ notes2 = << >>
    /\ idx2 = 1
    /\ alerts2 = << >>

NextAll == EvalStep

SpecAll == InitAll /\ [][NextAll]_vars
\* ------------------------------------------------------------------ claims
InRun      == pc \in {"eval", "mark", "deact", "done"}
BatchIds   == { notes[i].id : i \in 1 .. Len(notes) }
AlertIds   == { alerts[i].note_id : i \in 1 .. Len(alerts) }

\* C1: when a batch check run has completed (fetch, evaluate_all, the two
\* persistence loops), every note named in its alert list is stored with
\* active = 0.
C1_AlertedNotesInactive ==
    pc = "done" =>
        \A i \in 1 .. Len(alerts) :
            /\ HasRow(store, alerts[i].note_id)
            /\ store[alerts[i].note_id].active = 0
            /\ ~from_dict(store[alerts[i].note_id]).active

\* a completed run that alerted on one note and not on another of its batch
C1_Witness ==
    /\ pc = "done"
    /\ alerts # << >>
    /\ BatchIds \ AlertIds # {}

\* C2: a run changes nothing in the table but the last_checked of the notes
\* of its batch and the active flag of the notes it alerted on; a batch note
\* without an alert keeps its active flag, a note outside the batch keeps
\* its whole row; and update_last_checked(id) / deactivate_note(id) change
\* no row but the one with that id, none at all for an id without a row.
C2_StoreFrame ==
    /\ InRun =>
         \A id \in Ids :
            IF ~HasRow(store0, id) THEN store[id] = store0[id]
            ELSE /\ HasRow(store, id)
                 /\ [store[id] EXCEPT !.last_checked = NoneV, !.active = 1]
                      = [store0[id] EXCEPT !.last_checked = NoneV, !.active = 1]
                 /\ id \notin BatchIds => store[id] = store0[id]
                 /\ id \notin AlertIds => store[id].active = store0[id].active
    /\ \A id \in Ids \cup {0} :
         LET marked == update_last_checked(store, id, clock)
             off    == deactivate_note(store, id)
         IN  /\ \A j \in Ids : j # id => marked[j] = store[j] /\ off[j] = store[j]
             /\ ~HasRow(store, id) => marked = store /\ off = store

\* a completed run with an alerted note, while the table also holds a note
\* outside the batch, its row as it was at the fetch and its last_checked
\* other than that of a batch note
C2_Witness ==
    /\ pc = "done"
    /\ alerts # << >>
    /\ \E id \in Ids : /\ HasRow(store, id)
                       /\ id \notin BatchIds
                       /\ store[id] = store0[id]
                       /\ \E j \in BatchIds : store[id].last_checked # store[j].last_checked

\* C3: a completed run has written the last_checked of every note of its
\* batch exactly once (and at no time more than once), of the notes that
\* alerted, of those that did not and of those whose quote fetch gave none.
C3_CheckedExactlyOnce ==
    /\ \A id \in Ids : nchecked[id] <= 1
    /\ \A id \in Ids : nchecked[id] = 1 => id \in BatchIds
    /\ pc \in {"deact", "done"} =>
         \A i \in 1 .. Len(notes) :
            /\ nchecked[notes[i].id] = 1
            /\ store[notes[i].id].last_checked = Iso(clock)

\* a completed run over a note that alerted and a note whose quote was none
C3_Witness ==
    /\ pc = "done"
    /\ alerts # << >>
    /\ \E i \in 1 .. Len(notes) : /\ quoted[notes[i].id] = "none"
                                  /\ nchecked[notes[i].id] = 1

\* C4: a run hands only active notes to the Evaluator, and a note that a run
\* returned an alert for is in no later batch until activate has been
\* applied to it.
C4_OnlyActiveNotesEvaluated ==
    pc = "eval" =>
        \A i \in 1 .. Len(notes) :
            /\ notes[i].active
            /\ notes[i].id \notin alerted

\* a run evaluates while the table holds a note an earlier run alerted on,
\* and the batch holds a note that was checked before
C4_Witness ==
    /\ pc = "eval"
    /\ \E id \in alerted : HasRow(store, id) /\ store[id].active = 0
    /\ \E i \in 1 .. Len(notes) : notes[i].last_checked # NoneV

\* C5: within a run the table is written only after evaluate_all has gone
\* through the whole batch, and no alert is collected once writing began.
C5_SideEffectsAfterEvaluation ==
    [][ (pc # "idle" /\ store' # store) =>
            /\ pc \in {"mark", "deact"}
            /\ \A i \in 1 .. Len(notes) : quoted[notes[i].id] # "unset"
            /\ alerts' = alerts
            /\ notes' = notes ]_vars

\* the deactivation loop is under way for a batch of two notes or more
C5_Witness ==
    /\ pc = "deact"
    /\ Len(notes) >= 2
    /\ store # store0

\* C6 as claimed: an exception raised while one note is evaluated costs
\* that note only, and the loop goes on to the next note (or, after the last
\* note, to the persistence loops).
C6_ExceptionCaughtPerNote ==
    [][ pc = "eval" =>
            IF idx < Len(notes)
            THEN pc' = "eval" /\ idx' = idx + 1 /\ notes' = notes
            ELSE pc' = "mark" ]_vars

\* C7: evaluate_note returns None for a note with active = False, whatever
\* its conditions, its buy_price, the quote and the time.
C7_InactiveNoteNoAlert ==
    (eOut # NotCalled /\ ~eNote.active) => eOut = NoAlert

\* an inactive note that would have alerted had it been active
C7_Witness ==
    /\ eOut # NotCalled
    /\ ~eNote.active
    /\ evaluate_note([eNote EXCEPT !.active = TRUE], eInfo, eNow).kind = "alert"

\* C8: evaluate_note returns None for a note whose symbol is None or "",
\* whatever its conditions and its active flag.
C8_NoSymbolNoAlert ==
    (eOut # NotCalled /\ ~Truthy(eNote.symbol)) => eOut = NoAlert

\* an active note without a symbol that would have alerted with one
C8_Witness ==
    /\ eOut # NotCalled
    /\ eNote.symbol \in {NoneV, Str("")}
    /\ eNote.active
    /\ evaluate_note([eNote EXCEPT !.symbol = Str("AAPL")], eInfo, eNow).kind = "alert"

\* C9: a note whose quote fetch gave None gets no alert from evaluate_note,
\* not even from a reminder that is due; the run goes on to the next note,
\* and the note is still active when the run has completed.
C9_NoQuoteNoAlert ==
    /\ pc = "eval" =>
         \A i \in 1 .. Len(notes) :
            evaluate_note(notes[i], NoneV, clock) = NoAlert
    /\ pc \in {"eval", "mark", "deact", "done"} =>
         \A i \in 1 .. Len(notes) :
            quoted[notes[i].id] = "none" =>
               /\ notes[i].id \notin AlertIds
               /\ store[notes[i].id].active = 1
    /\ pc \in {"mark", "deact", "done"} =>
         \A i \in 1 .. Len(notes) : quoted[notes[i].id] # "unset"

\* a completed run in which the first note of the batch had a reminder due
\* and no quote, and the note after it was evaluated with a quote
C9_Witness ==
    /\ pc = "done"
    /\ Len(notes) >= 2
    /\ quoted[notes[1].id] = "none"
    /\ notes[1].conditions # NoneV
    /\ Truthy(Get(notes[1].conditions, "reminder_days"))
    /\ DaysElapsed(clock, notes[1].created_at) >= 1
    /\ quoted[notes[2].id] = "some"

\* the predicates with something configured on the note of the harness
Configured(note) ==
    IF note.conditions = NoneV THEN {} ELSE DOMAIN note.conditions

\* the note with only predicate p left in its conditions
Only(note, p) ==
    [note EXCEPT !.conditions = [k \in {p} |-> note.conditions[k]]]

\* predicate p triggers: the note alerts when p alone is configured
Triggers(note, p, price_info, now) ==
    evaluate_note(Only(note, p), price_info, now).kind = "alert"

Triggered(note, price_info, now) ==
    { p \in Configured(note) : Triggers(note, p, price_info, now) }

\* the reasons of the triggered predicates, in the order of PredOrder
RECURSIVE ReasonsInOrder(_, _, _, _)
ReasonsInOrder(note, price_info, now, k) ==
    IF k > Len(PredOrder) THEN << >>
    ELSE (IF PredOrder[k] \in Triggered(note, price_info, now)
          THEN evaluate_note(Only(note, PredOrder[k]), price_info, now).alert.reasons
          ELSE << >>)
         \o ReasonsInOrder(note, price_info, now, k + 1)

\* what C10 says of the call the harness made
AggregatesTriggered ==
    IF Triggered(eNote, eInfo, eNow) = {}
    THEN eOut = NoAlert
    ELSE /\ eOut.kind = "alert"
         /\ eOut.alert.reasons = ReasonsInOrder(eNote, eInfo, eNow, 1)
         /\ Len(eOut.alert.reasons) = Cardinality(Triggered(eNote, eInfo, eNow))

\* C10 as claimed: a call on an active note with a symbol and a quote yields
\* one Alert when a predicate triggers and None otherwise; the reasons are
\* those of the triggered predicates, one each, in the fixed order; whether
\* a predicate triggers does not depend on the others configured with it.
C10_OneAlertAllReasonsInOrder ==
    (eOut # NotCalled /\ ~GuardRejects(eNote) /\ eInfo # NoneV) => AggregatesTriggered

\* the same for the calls that return: what is left of C10 on the code
C10_Returned_Lemma ==
    (eOut # NotCalled /\ ~GuardRejects(eNote) /\ eInfo # NoneV /\ eOut.kind # "raise")
        => AggregatesTriggered

\* a call that returned one alert with the reasons of two predicates
C10_Returned_Witness ==
    /\ eOut.kind = "alert"
    /\ Len(eOut.alert.reasons) = 2

\* ----------------------------------------------- claims on the predicates
\* note.conditions or {}
Conds(note) == IF note.conditions = NoneV THEN EmptyDict ELSE note.conditions

\* the call of the harness got past the guards and the quote
Evaluated == eOut # NotCalled /\ ~GuardRejects(eNote) /\ eInfo # NoneV

\* ... and returned, an alert or None
Returned == Evaluated /\ eOut.kind # "raise"

\* what the note of the harness has under key p, and whether that is a
\* non-zero number
Thr(p) == Get(Conds(eNote), p)
IsSet(p) == IsNum(Thr(p)) /\ Thr(p).v # 0

\* the returned alert has a reason of predicate p
HasReason(p) ==
    /\ eOut.kind = "alert"
    /\ \E i \in 1 .. Len(eOut.alert.reasons) : eOut.alert.reasons[i].pred = p

ReasonOf(p) ==
    eOut.alert.reasons[CHOOSE i \in 1 .. Len(eOut.alert.reasons) :
                           eOut.alert.reasons[i].pred = p]

\* the note's buy_price is a positive number
HasBuyPrice == IsNum(eNote.buy_price) /\ eNote.buy_price.v > 0

\* C11 as claimed: once the days elapsed reach time_period_days the
\* predicate gives a reason in every case, the one with the gain when
\* buy_price is present and the price is above it, the generic one
\* otherwise; before that it gives none.
C11_TimePeriodAlwaysReason ==
    (Returned /\ IsSet("time_period_days")) =>
        LET due == DaysElapsed(eNow, eNote.created_at) >= Thr("time_period_days").v
            up  == HasBuyPrice /\ eInfo.current_price > eNote.buy_price.v
        IN  IF ~due THEN ~HasReason("time_period_days")
            ELSE /\ HasReason("time_period_days")
                 /\ ReasonOf("time_period_days").up = up
                 /\ ReasonOf("time_period_days").days = Thr("time_period_days").v

\* C12: price_above with a non-zero threshold gives its reason if and only
\* if current_price >= threshold, and the reason carries the threshold with
\* two decimals.
C12_PriceAboveInclusive ==
    (Returned /\ IsSet("price_above")) =>
        LET th == Thr("price_above").v IN
        /\ HasReason("price_above") <=> eInfo.current_price >= th
        /\ HasReason("price_above") =>
              ReasonOf("price_above").amount
                = [neg |-> th < 0, whole |-> Abs(th) \div 100, frac |-> Abs(th) % 100]

\* a call at the boundary: the price equals the threshold, and it alerted
C12_Witness ==
    /\ Returned /\ IsSet("price_above")
    /\ eInfo.current_price = Thr("price_above").v
    /\ HasReason("price_above")

\* C13: price_below with a non-zero threshold gives its reason if and only
\* if current_price <= threshold.
C13_PriceBelowInclusive ==
    (Returned /\ IsSet("price_below")) =>
        (HasReason("price_below") <=> eInfo.current_price <= Thr("price_below").v)

\* a call at the boundary: the price equals the threshold, and it alerted
C13_Witness ==
    /\ Returned /\ IsSet("price_below")
    /\ eInfo.current_price = Thr("price_below").v
    /\ HasReason("price_below")

\* price_between is a {min, max} pair whose bounds are numbers or missing
IsPair(x) ==
    /\ x.t = "dict"
    /\ x.min.t \in {"none", "num"}
    /\ x.max.t \in {"none", "num"}

\* C14 as claimed: price_between gives its reason if and only if both
\* bounds are there and min <= current_price <= max, a min of 0 included.
C14_PriceBetweenInclusive ==
    (Returned /\ IsPair(Thr("price_between"))) =>
        LET r == Thr("price_between") IN
        HasReason("price_between") <=>
            /\ IsNum(r.min) /\ IsNum(r.max)
            /\ r.min.v <= eInfo.current_price
            /\ eInfo.current_price <= r.max.v

\* what holds of price_between on the code: the same with both bounds non-zero
C14_NonZeroBounds_Lemma ==
    (Returned /\ IsPair(Thr("price_between"))) =>
        LET r == Thr("price_between") IN
        HasReason("price_between") <=>
            /\ IsNum(r.min) /\ IsNum(r.max)
            /\ r.min.v # 0 /\ r.max.v # 0
            /\ r.min.v <= eInfo.current_price
            /\ eInfo.current_price <= r.max.v

\* the exact percentage 100 * (x - y) / y is below, at or above T (y > 0)
ExactPctSign(x, y, T) == Sgn(100 * (x - y) - T * y)

\* C15 as claimed: percent_drop with a non-zero threshold gives its reason
\* if and only if buy_price is there and the change is <= -threshold; never
\* without a buy_price; a drop of exactly the threshold triggers, a smaller
\* one does not.
C15_ExactDropTriggers ==
    (Returned /\ IsSet("percent_drop")) =>
        LET th == Thr("percent_drop").v IN
        /\ ~HasBuyPrice => ~HasReason("percent_drop")
        /\ HasBuyPrice =>
             (HasReason("percent_drop") <=>
                ExactPctSign(eInfo.current_price, eNote.buy_price.v, -th) <= 0)

\* C15 as the code has it: a drop larger than the (positive) threshold
\* triggers, a smaller one does not, and a drop of exactly the threshold
\* triggers when the double product (x / y) * 100 is not short of it; never
\* without a buy_price.
C15_PercentDropDouble ==
    (Returned /\ IsSet("percent_drop") /\ Thr("percent_drop").v > 0) =>
        LET th == Thr("percent_drop").v IN
        /\ ~HasBuyPrice => ~HasReason("percent_drop")
        /\ HasBuyPrice =>
             LET e == ExactPctSign(eInfo.current_price, eNote.buy_price.v, -th) IN
             HasReason("percent_drop") <=>
                (e < 0 \/ (e = 0 /\ Float100(th) >= 0))

\* a drop of exactly the threshold that triggered: 170.00 against 200.00, 15%
C15_Witness ==
    /\ Returned /\ IsSet("percent_drop") /\ HasBuyPrice
    /\ ExactPctSign(eInfo.current_price, eNote.buy_price.v, -Thr("percent_drop").v) = 0
    /\ HasReason("percent_drop")

\* the note's quote has a previous_close
HasClose == eInfo.previous_close # NoneV /\ eInfo.previous_close.v > 0

\* C16: percent_change with a non-zero threshold gives its reason if and
\* only if previous_close is there and the size of the change from it, as
\* the doubles give it, is >= the size of the threshold: a larger move in
\* either direction triggers for a threshold of either sign, a smaller one
\* does not, one of exactly the threshold does when the double product is
\* not short of it; never without a previous_close.
C16_PercentChangeEitherWay ==
    (Returned /\ IsSet("percent_change")) =>
        LET th == Abs(Thr("percent_change").v) IN
        /\ ~HasClose => ~HasReason("percent_change")
        /\ HasClose =>
             LET x  == eInfo.current_price
                 y  == eInfo.previous_close.v
                 e  == IF x >= y THEN ExactPctSign(x, y, th)
                                 ELSE -ExactPctSign(x, y, -th)
             IN  /\ HasReason("percent_change") <=>
                       (e > 0 \/ (e = 0 /\ Float100(th) >= 0))
                 /\ HasReason("percent_change") =>
                       ReasonOf("percent_change").direction
                         = (IF x > y THEN "up" ELSE "down")

\* a move up of exactly 5% that triggered a threshold of -5
C16_Witness ==
    /\ Returned /\ IsSet("percent_change") /\ HasClose
    /\ Thr("percent_change").v < 0
    /\ eInfo.current_price > eInfo.previous_close.v
    /\ ExactPctSign(eInfo.current_price, eInfo.previous_close.v,
                    -Thr("percent_change").v) = 0
    /\ HasReason("percent_change")

\* C17: trailing_stop with a non-zero stop price gives its reason if and
\* only if the note has a buy_price and current_price <= stop_price; without
\* a buy_price never, however low the price.
C17_TrailingStopNeedsBuyPrice ==
    (Returned /\ IsSet("trailing_stop")) =>
        (HasReason("trailing_stop") <=>
            HasBuyPrice /\ eInfo.current_price <= Thr("trailing_stop").v)

\* a call with a buy_price and the price exactly at the stop, which alerted
C17_Witness ==
    /\ Returned /\ IsSet("trailing_stop") /\ HasBuyPrice
    /\ eInfo.current_price = Thr("trailing_stop").v
    /\ HasReason("trailing_stop")

\* C18: reminder_days with a non-zero threshold gives its reason if and
\* only if threshold whole days lie between created_at and the time of the
\* call, whatever the price, the previous close and the buy_price.
C18_ReminderWholeDays ==
    (Returned /\ IsSet("reminder_days")) =>
        (HasReason("reminder_days") <=>
            eNow - eNote.created_at >= Thr("reminder_days").v * DayLen)

\* a reminder fired on the very day it fell due, on a note without buy_price
C18_Witness ==
    /\ Returned /\ IsSet("reminder_days")
    /\ eNote.buy_price = NoneV
    /\ eNow - eNote.created_at = Thr("reminder_days").v * DayLen
    /\ HasReason("reminder_days")

\* a price_between that is no pair of two numbers
Malformed(x) ==
    /\ x # NoneV
    /\ ~(x.t = "dict" /\ IsNum(x.min) /\ IsNum(x.max))

\* the note without its price_between entry
WithoutPriceBetween(note) ==
    [note EXCEPT !.conditions =
        [k \in DOMAIN note.conditions \ {"price_between"} |-> note.conditions[k]]]

\* C19 as claimed: a malformed entry counts as an absent predicate: the call
\* does not raise and returns what it returns for the note without the entry.
C19_MalformedIsAbsent ==
    (Evaluated /\ Malformed(Thr("price_between"))) =>
        /\ eOut.kind # "raise"
        /\ eOut = evaluate_note(WithoutPriceBetween(eNote), eInfo, eNow)

\* an entry of the note is None or 0
IsUnset(v) == v = NoneV \/ v = Num(0)

\* C20: a note without conditions, with an empty mapping, or with None or 0
\* under every key never gets an alert, whatever the price, the previous
\* close, the buy_price and the time elapsed.
C20_NothingSetNoAlert ==
    (eOut # NotCalled /\ \A k \in DOMAIN Conds(eNote) : IsUnset(Conds(eNote)[k]))
        => eOut = NoAlert

\* a call that reached the predicates of a note with a zero under every key,
\* a buy_price above the price and a day gone by
C20_Witness ==
    /\ Evaluated
    /\ DOMAIN Conds(eNote) = CondKeys
    /\ \A k \in CondKeys : Conds(eNote)[k] = Num(0)
    /\ HasBuyPrice /\ eInfo.current_price < eNote.buy_price.v
    /\ eNow - eNote.created_at >= DayLen
    /\ eOut = NoAlert

C22_LastCheckedMonotone ==
    [][ \A id \in Ids :
          (HasRow(store, id) /\ store[id].last_checked # NoneV) =>
             /\ HasRow(store', id)
             /\ store'[id].last_checked # NoneV
             /\ FromIso(store'[id].last_checked) >= FromIso(store[id].last_checked)
             /\ activate_note(store, id)[id].last_checked = store[id].last_checked
             /\ deactivate_note(store, id)[id].last_checked = store[id].last_checked
      ]_vars

\* a completed run that has written a later time over an earlier one
C22_Witness ==
    /\ pc = "done"
    /\ \E id \in BatchIds :
         /\ store0[id].last_checked # NoneV
         /\ FromIso(store[id].last_checked) > FromIso(store0[id].last_checked)

\* C23: no row of the table has an absent or empty symbol: add stores a
\* note only when the parsed symbol is non-empty and the provider resolved
\* it, and nothing else inserts rows.
C23_NoSymbolLessRow ==
    \A id \in Ids :
        HasRow(store, id) =>
            /\ store[id].symbol # NoneV
            /\ store[id].symbol.s # ""
            /\ get_price_info(store[id].symbol) # {NoneV}

\* a table that add has filled
C23_Witness ==
    \A id \in Ids : HasRow(store, id) /\ store[id].symbol = Str("AAPL")

\* C24: deactivating a note twice is deactivating it once, also when its
\* alert is in the list twice; and the two loops of a run commute: from the
\* table the run fetched, deactivating first and marking checked second
\* gives the table the run ends with.
C24_SideEffectsCommute ==
    /\ \A id \in Ids :
         /\ deactivate_note(deactivate_note(store, id), id) = deactivate_note(store, id)
         /\ update_last_checked(update_last_checked(store, id, clock), id, clock)
              = update_last_checked(store, id, clock)
    /\ pc \in {"mark", "deact", "done"} =>
         /\ DeactAll(store0, alerts \o alerts, 1) = DeactAll(store0, alerts, 1)
         /\ MarkAll(DeactAll(store0, alerts, 1), notes, 1, clock)
              = DeactAll(MarkAll(store0, notes, 1, clock), alerts, 1)
    /\ pc = "done" =>
         store = MarkAll(DeactAll(store0, alerts, 1), notes, 1, clock)

\* a completed run of two notes or more that deactivated one of them
C24_Witness ==
    /\ pc = "done"
    /\ Len(notes) >= 2
    /\ alerts # << >>
    /\ \E id \in AlertIds : store0[id].active = 1 /\ store[id].active = 0

AlertIds2 == { alerts2[i].note_id : i \in 1 .. Len(alerts2) }

\* C25: with two runs interleaved on one table, whatever the interleaving,
\* a run that has completed leaves every note of its alert list inactive,
\* and a note is inactive only if a run returned an alert for it: the race
\* costs no other note its active flag.  (That both runs can alert on the
\* same note is what C25_Witness reaches.)
C25_RaceOnSameNoteOnly ==
    /\ pc = "done" => \A id \in AlertIds : store[id].active = 0
    /\ pc2 = "done" => \A id \in AlertIds2 : store[id].active = 0
    /\ \A id \in Ids : (HasRow(store, id) /\ store[id].active = 0) => id \in alerted
    /\ \A id \in RaceIds : HasRow(store, id)

\* both runs have completed, both alerted on the same note, which is
\* inactive, and the other note is still active
C25_Witness ==
    /\ pc = "done" /\ pc2 = "done"
    /\ \E id \in AlertIds \cap AlertIds2 : store[id].active = 0
    /\ \E id \in RaceIds : store[id].active = 1

\* the positions of the list whose pass of the loop is over
Processed ==
    IF pc = "eval" THEN 1 .. (idx - 1)
    ELSE IF pc = "mark" THEN 1 .. Len(notes) ELSE {}

\* the positions of the list whose note passes both guards
Passing == { j \in 1 .. Len(notes) : ~GuardRejects(notes[j]) }

\* the number of provider calls expected once position j is processed
CallIdx(j) == Cardinality({ k \in Passing : k <= j })

\* C26: during evaluate_all the provider calls made so far are, in the
\* order of the list, exactly one call for each processed note that is
\* active and has a symbol: none for a note a guard rejects, no second call
\* after an answer of None, and no call for a note whose turn has not come.
C26_OneCallPerNoteInOrder ==
    pc \in {"eval", "mark"} =>
       /\ Len(calls) = Cardinality(Processed \cap Passing)
       /\ \A j \in Processed \cap Passing : calls[CallIdx(j)].id = notes[j].id
       /\ Len(alerts) <= Len(calls)

\* evaluate_all is through a list that holds a note a guard rejects and a
\* note whose quote came back None: the log holds the one call, not retried
C26_Witness ==
    /\ pc = "mark" /\ Len(notes) >= 2
    /\ \E j \in 1 .. Len(notes) : GuardRejects(notes[j])
    /\ Len(calls) = 1 /\ calls[1].info = NoneV

\* the ways to match the alerts collected so far with processed positions
\* of the list, a later alert with a later position
AlertPositions ==
    { f \in [1 .. Len(alerts) -> Processed] :
        \A i, j \in 1 .. Len(alerts) : i < j => f[i] < f[j] }

\* C28: the alerts evaluate_all has collected match distinct notes of its
\* input list in the list's order (so at most one alert per entry); each
\* matched note is active and has a symbol; the alert carries that note's
\* id, symbol, buy_price, raw_text and user_opinion and the current_price
\* of the quote the provider gave for that note.
C28_AlertsFollowTheList ==
    pc \in {"eval", "mark"} =>
       \E f \in AlertPositions :
          \A i \in 1 .. Len(alerts) :
             LET n == notes[f[i]]
                 a == alerts[i]
             IN  /\ Truthy(n.symbol) /\ n.active
                 /\ a.note_id = n.id
                 /\ a.symbol = n.symbol
                 /\ a.buy_price = n.buy_price
                 /\ a.raw_text = n.raw_text
                 /\ a.user_opinion = n.user_opinion
                 /\ CallIdx(f[i]) <= Len(calls)
                 /\ calls[CallIdx(f[i])].info # NoneV
                 /\ a.current_price = calls[CallIdx(f[i])].info.current_price

\* evaluate_all returned two alerts, for two different notes
C28_Witness ==
    /\ pc = "mark" /\ Len(alerts) = 2
    /\ alerts[1].note_id # alerts[2].note_id
    /\ alerts[1].current_price = calls[1].info.current_price

\* the values of the tag action_type (models.py, llm_parser.py)
ActionTypes ==
    { NoneV, Str("buy"), Str("hold"), Str("watch"), Str("sell"),
      Str("review"), Str("unknown") }

\* the note with another action_type
WithActionType(note, a) == [note EXCEPT !.action_type = a]

\* the note with percent_above_buy set to v, and without that key
WithPercentAboveBuy(note, v) ==
    [note EXCEPT !.conditions =
        [k \in DOMAIN Conds(note) \cup {"percent_above_buy"} |->
            IF k = "percent_above_buy" THEN v ELSE Conds(note)[k]]]

WithoutPercentAboveBuy(note) ==
    [note EXCEPT !.conditions =
        [k \in DOMAIN Conds(note) \ {"percent_above_buy"} |-> Conds(note)[k]]]

\* C27: the result of evaluate_note (alert or none or exception, and the
\* reasons) is the same for the note with any other action_type, with any
\* value under percent_above_buy and without that key; a note with nothing
\* but percent_above_buy has no alert.
C27_NonEvaluatedFieldsIgnored ==
    eOut # NotCalled =>
       /\ \A a \in ActionTypes :
             evaluate_note(WithActionType(eNote, a), eInfo, eNow) = eOut
       /\ \A v \in {Num(0), Num(1), Num(10), Str("10"), NoneV} :
             evaluate_note(WithPercentAboveBuy(eNote, v), eInfo, eNow) = eOut
       /\ evaluate_note(WithoutPercentAboveBuy(eNote), eInfo, eNow) = eOut
       /\ Configured(eNote) = {"percent_above_buy"} => eOut = NoAlert

\* a note with percent_above_buy and another predicate, quoted above its
\* buy_price by that percentage, alerts for the other predicate only
C27_Witness ==
    /\ Evaluated /\ IsSet("percent_above_buy") /\ HasBuyPrice
    /\ (eInfo.current_price - eNote.buy_price.v) * 100
          >= Thr("percent_above_buy").v * eNote.buy_price.v
    /\ eOut.kind = "alert" /\ Len(eOut.alert.reasons) = 1

\* C29: a percent_change reason says "up" exactly when current_price is
\* above previous_close and "down" exactly when it is below, and there is
\* no such reason when the two are equal (prices being positive amounts).
C29_DirectionIsTheSignOfTheMove ==
    (Returned /\ HasReason("percent_change")) =>
       /\ HasClose
       /\ eInfo.current_price # eInfo.previous_close.v
       /\ ReasonOf("percent_change").direction \in {"up", "down"}
       /\ ReasonOf("percent_change").direction = "up"
             <=> eInfo.current_price > eInfo.previous_close.v
       /\ ReasonOf("percent_change").direction = "down"
             <=> eInfo.current_price < eInfo.previous_close.v

\* a fall below previous_close, under a positive threshold, reported "down"
C29_Witness ==
    /\ Returned /\ HasReason("percent_change") /\ HasClose
    /\ Thr("percent_change").v > 0
    /\ eInfo.current_price < eInfo.previous_close.v
    /\ ReasonOf("percent_change").direction = "down"

\* the quote equals previous_close and percent_change is set: no reason
C29_Equal_Witness ==
    /\ Returned /\ IsSet("percent_change") /\ HasClose
    /\ eInfo.current_price = eInfo.previous_close.v
    /\ ~HasReason("percent_change")

\* the note written with to_dict and read back with from_dict
Reloaded(note) == from_dict(to_dict(note))

\* the note as it is once a check run has marked it at time ts
CheckedAt(note, ts) == [note EXCEPT !.last_checked = Num(ts)]

\* to_dict then from_dict keeps the nine plain fields of the note, and the
\* conditions unless they were empty and come back absent
RoundTripKeeps(note) ==
    LET r == Reloaded(note) IN
    /\ r.id = note.id
    /\ r.raw_text = note.raw_text
    /\ r.symbol = note.symbol
    /\ r.action_type = note.action_type
    /\ r.buy_price = note.buy_price
    /\ r.user_opinion = note.user_opinion
    /\ r.created_at = note.created_at
    /\ r.last_checked = note.last_checked
    /\ r.active = note.active
    /\ \/ r.conditions = note.conditions
       \/ r.conditions = NoneV /\ ~DictTruthy(note.conditions)

\* C30: for the note of every call, never checked or checked at any time,
\* from_dict(to_dict(n)) keeps the nine plain fields and the conditions
\* (absent where they were empty), and evaluate_note returns for it what it
\* returns for n; a row whose conditions text is no JSON document is read
\* with conditions {} and no exception.
C30_RoundTripPreservesEvaluation ==
    eOut # NotCalled =>
       /\ RoundTripKeeps(eNote)
       /\ \A ts \in EvalTimes : RoundTripKeeps(CheckedAt(eNote, ts))
       /\ evaluate_note(Reloaded(eNote), eInfo, eNow) = eOut
       /\ JsonLoadsRaises(BadJson)
       /\ from_dict([to_dict(eNote) EXCEPT !.conditions = BadJson]).conditions
             = EmptyDict

\* an alerting note with a price range and a second predicate went through
\* the text of its conditions and alerts as before
C30_Witness ==
    /\ eOut # NotCalled /\ eOut.kind = "alert"
    /\ Cardinality(Configured(eNote)) = 2
    /\ IsPair(Thr("price_between"))
    /\ Len(to_dict(eNote).conditions.toks) > 9
    /\ Reloaded(eNote).conditions = eNote.conditions
    /\ evaluate_note(Reloaded(eNote), eInfo, eNow) = eOut

\* a note with empty conditions comes back with conditions absent
C30_Empty_Witness ==
    /\ eOut # NotCalled /\ eNote.conditions = EmptyDict
    /\ Reloaded(eNote).conditions = NoneV

==========================================================================
